---- MODULE Spec2Model ----
(***************************************************************************)
(* A model of the Anthropic -> OpenAI adapter: the two SSE transducers of  *)
(* utils.py, the /v1/messages handler of routers/messages.py, the process  *)
(* configuration of constants.py and the request/response translators.     *)
(***************************************************************************)
EXTENDS Integers, Sequences, FiniteSets, TLC

VARIABLES
    api,      \* which transducer runs this response: "chat" or "resp"
    ts,       \* the generator's locals, its position and what it has yielded
    nlines,   \* upstream lines consumed so far
    hist,     \* history of the upstream input (not program state)
    up,       \* a protocol-following Responses upstream: where it stands
    config,   \* the AppConfig singleton of constants.py
    rq,       \* the POST /v1/messages request being handled, and its answer
    xflavor,  \* the translators' flavor of the request being translated
    areq,     \* an Anthropic request body
    tbody,    \* its translation for the upstream
    aresp,    \* the Anthropic reply translated from an upstream reply
    answer,   \* what an endpoint did with the request: sent upstream, status
    streams,  \* the streamed responses in progress at once, by request
    arrivals  \* the requests whose upstream line arrived, in arrival order

streamVars == <<api, ts, nlines, hist, up>>
httpVars == <<config, rq>>
xlateVars == <<xflavor, areq, tbody, aresp, answer>>
concVars == <<streams, arrivals>>
vars == <<streamVars, httpVars, xlateVars, concVars>>

\* ------------------------------------------------------------- bounds
MaxChatLines == 3      \* upstream lines fed to the Chat-Completions transducer
MaxRespLines == 5      \* upstream lines fed to the Responses transducer
MaxToolIndex == 1      \* largest tool_calls[0].index a chunk carries
MaxOutputIndex == 2    \* largest output_index / content_index of a payload
MaxItems == 3          \* output items of a protocol-following Responses stream
MaxDeltas == 2         \* deltas of one such item
MaxBlocks == 2         \* blocks in the content list of a message

\* chunk.get(key) finding no key
Absent == -1

Frags == {"a"}         \* non-empty text / argument fragments
ToolIds == {"call_a"}  \* ids (and names) a tool-call chunk may carry

\* ------------------------------------------------------------- events
\* One yielded SSE event: its name, the block index (Absent when it has
\* none), and what the claims need of its payload.
Ev(type, index, kind, val) ==
    [type |-> type, index |-> index, kind |-> kind, val |-> val]

MessageStart == Ev("message_start", Absent, "", "")
MessageStop == Ev("message_stop", Absent, "", "")
MessageDelta(reason) == Ev("message_delta", Absent, reason, "")
BlockStart(i, kind, id) == Ev("content_block_start", i, kind, id)
BlockDelta(i, kind, text) == Ev("content_block_delta", i, kind, text)
BlockStop(i) == Ev("content_block_stop", i, "", "")

\* ------------------------------------------- Chat-Completions transducer
\* An upstream line, as far as stream_openai_to_anthropic reads it.
\*   k: "blank" (empty or "data: [DONE]"), "other" (no "data: " prefix),
\*      "badjson", "nochoices", "chunk"
NoChunk(k) ==
    [k |-> k, hasDelta |-> FALSE, content |-> "none", hasTc |-> FALSE,
     tcIndex |-> Absent, tcId |-> "absent", args |-> "absent", fin |-> "none"]

ChatLines ==
    {NoChunk(k) : k \in {"blank", "other", "badjson", "nochoices"}}
    \* text chunks, with or without finish_reason
    \cup [k : {"chunk"}, hasDelta : {TRUE}, content : {"none", ""} \cup Frags,
          hasTc : {FALSE}, tcIndex : {Absent}, tcId : {"absent"},
          args : {"absent"}, fin : {"none", "stop", "tool_calls", "length"}]
    \* tool-call chunks
    \cup [k : {"chunk"}, hasDelta : {TRUE}, content : {"none"},
          hasTc : {TRUE}, tcIndex : 0..MaxToolIndex,
          tcId : {"absent"} \cup ToolIds,
          args : {"absent", ""} \cup Frags, fin : {"none"}]
    \* a chunk carrying text, a tool call and finish_reason at once
    \cup [k : {"chunk"}, hasDelta : {TRUE}, content : Frags,
          hasTc : {TRUE}, tcIndex : 0..MaxToolIndex, tcId : ToolIds,
          args : Frags, fin : {"tool_calls"}]
    \* chunks that raise: a tool call without index, a choice without delta
    \cup [k : {"chunk"}, hasDelta : {TRUE}, content : {"none"} \cup Frags,
          hasTc : {TRUE}, tcIndex : {Absent}, tcId : {"absent"},
          args : {"absent"}, fin : {"none", "stop"}]
    \cup [k : {"chunk"}, hasDelta : {FALSE}, content : {"none"},
          hasTc : {FALSE}, tcIndex : {Absent}, tcId : {"absent"},
          args : {"absent"}, fin : {"none", "stop"}]

\* the open block closed when a chunk cannot be parsed
closed_on_error(st) == [st EXCEPT !.out = @ \o <<BlockStop(st.cbi)>>]

\* utils.py:281-283 and 650-652: json.loads raised, the exception is logged
\* and the loop goes on to the next line
swallowed(st) == st

\* utils.py:273
chat_stop_reason(reason) ==
    IF reason = "tool_calls" THEN "tool_use" ELSE "end_turn"

\* a block opened for every tool-call chunk
chat_new_block_always(target_index, current_block_index) == TRUE

\* utils.py:233: a new block is opened only when the index changes
chat_new_block(target_index, current_block_index) ==
    target_index # current_block_index

\* a text_delta for an empty content too
chat_text_events_with_empty(c) ==
    IF c.content # "none"
    THEN <<BlockDelta(0, "text_delta", c.content)>> ELSE <<>>

\* utils.py:212-224: the text part of a chunk
chat_text_events(c) ==
    IF c.content \notin {"none", ""}
    THEN <<BlockDelta(0, "text_delta", c.content)>> ELSE <<>>

\* utils.py:227-268: the tool-call part of a chunk, [out, cbi]
chat_tool_part(c, cbi) ==
    IF ~c.hasTc THEN [out |-> <<>>, cbi |-> cbi]
    ELSE
      LET target_index == c.tcIndex + 1
          open == chat_new_block(target_index, cbi)
          cur == IF open THEN target_index ELSE cbi
          tool_id == IF c.tcId = "absent" THEN "pending" ELSE c.tcId
          opening == IF open
                     THEN <<BlockStop(cbi), BlockStart(cur, "tool_use", tool_id)>>
                     ELSE <<>>
          argsEv == IF c.args \notin {"absent", ""}
                    THEN <<BlockDelta(cur, "input_json_delta", c.args)>>
                    ELSE <<>>
      IN [out |-> opening \o argsEv, cbi |-> cur]

\* the open block closed, the message_delta forgotten
chat_finish_events_stop_only(c, cbi) ==
    IF c.fin # "none" THEN <<BlockStop(cbi)>> ELSE <<>>

\* utils.py:270-279: the finish_reason part of a chunk
chat_finish_events(c, cbi) ==
    IF c.fin # "none"
    THEN <<BlockStop(cbi), MessageDelta(chat_stop_reason(c.fin))>>
    ELSE <<>>

\* utils.py:201-283: one iteration of the loop over response.aiter_lines().
\* An exception raised in the try block ends the iteration after the events
\* already yielded: a missing delta raises before any, a missing tool index
\* after the text delta.
stream_openai_line(st, c) ==
    IF c.k = "badjson" THEN swallowed(st)
    ELSE IF c.k # "chunk" THEN st
    ELSE IF ~c.hasDelta THEN st
    ELSE IF c.hasTc /\ c.tcIndex = Absent
         THEN [st EXCEPT !.out = @ \o chat_text_events(c)]
    ELSE
      LET tp == chat_tool_part(c, st.cbi)
      IN [st EXCEPT
            !.out = @ \o chat_text_events(c) \o tp.out
                      \o chat_finish_events(c, tp.cbi),
            !.cbi = tp.cbi]

\* utils.py:190-199: what the generator yields before it reads a line
stream_openai_begin(st) ==
    [st EXCEPT !.pc = "loop", !.cbi = 0,
               !.out = <<MessageStart, BlockStart(0, "text", "")>>]

\* utils.py:285: the upstream is exhausted
stream_openai_close(st) ==
    [st EXCEPT !.pc = "done", !.out = @ \o <<MessageStop>>]

\* ------------------------------------------------- Responses transducer
EventNames ==
    {"response.created", "response.in_progress",
     "response.output_item.added", "response.content_part.added",
     "response.output_text.delta", "response.function_call_delta",
     "response.output_text.done", "response.output_item.done",
     "response.completed"}

\* An upstream line, as far as stream_v1_responses_to_anthropic reads it.
\*   k: "blank", "other" (neither prefix), "event" (name), "data"
\*   pk, of a data line: "empty" (nothing or [DONE]), "badjson", "scalar"
\*      (JSON, but no object), "object"
\*   delta: the text of an output_text.delta, the arguments of a
\*      function_call_delta
RespLine(k, name) ==
    [k |-> k, name |-> name, pk |-> "empty", output_index |-> Absent,
     item_type |-> "absent", item_id |-> "absent", content_index |-> Absent,
     delta |-> "absent", has_fn |-> FALSE]

RespObject == [RespLine("data", "") EXCEPT !.pk = "object"]

\* The payloads that differ in a field the handler of event `ev` reads.
RespPayloads(ev) ==
    {[RespLine("data", "") EXCEPT !.pk = k] : k \in {"empty", "badjson", "scalar"}}
    \cup
    CASE ev = "response.output_item.added" ->
           {[RespObject EXCEPT !.output_index = i, !.item_type = t, !.item_id = d] :
              i \in {Absent} \cup (0..MaxOutputIndex),
              t \in {"message", "function_call", "reasoning"},
              d \in {"absent"} \cup ToolIds}
      [] ev = "response.content_part.added" ->
           {[RespObject EXCEPT !.content_index = i] :
              i \in {Absent} \cup (0..MaxOutputIndex)}
      [] ev \in {"response.output_text.delta", "response.function_call_delta"} ->
           {[RespObject EXCEPT !.delta = d] : d \in {"absent", ""} \cup Frags}
      [] ev = "response.output_item.done" ->
           {[RespObject EXCEPT !.output_index = i] :
              i \in {Absent} \cup (0..MaxOutputIndex)}
      [] ev = "response.completed" ->
           {[RespObject EXCEPT !.has_fn = b] : b \in BOOLEAN}
      [] OTHER -> {RespObject}

RespLines(ev) ==
    {RespLine("blank", ""), RespLine("other", "")}
    \cup {RespLine("event", n) : n \in EventNames}
    \cup RespPayloads(ev)

\* utils.py:581-582: the block closed when a new item arrives
resp_closed_index(current_block_index) == current_block_index - 1

\* utils.py:574-595
resp_item_added(st, c) ==
    LET output_index == IF c.output_index = Absent THEN st.cbi ELSE c.output_index
        closing == IF st.cbi > 0 /\ st.cbi # output_index
                   THEN <<BlockStop(resp_closed_index(st.cbi))>> ELSE <<>>
        item_id == IF c.item_id = "absent" THEN "" ELSE c.item_id
        opening == IF c.item_type = "message"
                     THEN <<BlockStart(output_index, "text", "")>>
                   ELSE IF c.item_type = "function_call"
                     THEN <<BlockStart(output_index, "tool_use", item_id)>>
                   ELSE <<>>
    IN [st EXCEPT
          !.out = @ \o closing \o opening,
          !.cbi = output_index,
          !.cci = IF c.item_type \in {"message", "function_call"} THEN 0 ELSE @,
          !.open = [@ EXCEPT ![output_index] = c.item_type]]

\* utils.py:597-607; a missing content_index is None, and None > int raises
resp_part_added(st, c) ==
    IF c.content_index = Absent THEN st
    ELSE IF c.content_index > st.cci
    THEN [st EXCEPT
            !.out = @ \o (IF st.cci > 0
                          THEN <<BlockStop(resp_closed_index(st.cbi))>> ELSE <<>>),
            !.cci = c.content_index]
    ELSE st

\* utils.py:609-619
resp_delta(st, c, kind) ==
    IF c.delta \notin {"absent", ""}
    THEN [st EXCEPT !.out = @ \o <<BlockDelta(st.cbi, kind, c.delta)>>]
    ELSE st

\* utils.py:625-629
resp_item_done(st, c) ==
    LET output_index == IF c.output_index = Absent THEN st.cbi ELSE c.output_index
    IN IF output_index = st.cbi
       THEN [st EXCEPT !.out = @ \o <<BlockStop(st.cbi)>>] ELSE st

\* utils.py:631-648
resp_completed(st, c) ==
    LET stop_reason == IF c.has_fn THEN "tool_use" ELSE "end_turn"
    IN [st EXCEPT !.out = @ \o <<MessageDelta(stop_reason), MessageStop>>]

\* a message_start for every response.created
resp_created_always(st) ==
    [st EXCEPT !.out = @ \o <<MessageStart>>, !.started = TRUE]

\* utils.py:567-571
resp_created(st) ==
    IF ~st.started
    THEN [st EXCEPT !.out = @ \o <<MessageStart>>, !.started = TRUE]
    ELSE st

\* utils.py:550-655: one iteration of the loop over response.aiter_lines().
\* event_type is unbound until the first "event: " line: reading it raises,
\* and the exception is swallowed like a JSON error.
stream_v1_responses_line(st, l) ==
    IF l.k = "event" THEN [st EXCEPT !.ev = l.name]
    ELSE IF l.k # "data" THEN st
    ELSE IF l.pk = "empty" THEN st
    ELSE IF l.pk = "badjson" THEN swallowed(st)
    ELSE IF st.ev = "unset" THEN st
    ELSE IF st.ev = "response.created" THEN resp_created(st)
    ELSE IF l.pk = "scalar" THEN st
    ELSE IF st.ev = "response.output_item.added" THEN resp_item_added(st, l)
    ELSE IF st.ev = "response.content_part.added" THEN resp_part_added(st, l)
    ELSE IF st.ev = "response.output_text.delta" THEN resp_delta(st, l, "text_delta")
    ELSE IF st.ev = "response.function_call_delta"
         THEN resp_delta(st, l, "input_json_delta")
    ELSE IF st.ev = "response.output_item.done" THEN resp_item_done(st, l)
    ELSE IF st.ev = "response.completed" THEN resp_completed(st, l)
    ELSE st

\* utils.py:544-548: the generator's locals before the loop
stream_v1_responses_begin(st) == [st EXCEPT !.pc = "loop"]

\* utils.py:657-659: the upstream is exhausted
resp_trailing_stop(st) == st.started

stream_v1_responses_close(st) ==
    [st EXCEPT !.pc = "done",
               !.out = @ \o (IF resp_trailing_stop(st) THEN <<MessageStop>> ELSE <<>>)]

\* ----------------------------------------------------------------- JSON
\* A JSON value: a number, a string, or an object (its members in order).
JNum(n) == [t |-> "num", n |-> n, s |-> "", kv |-> <<>>]
JStr(str) == [t |-> "str", n |-> 0, s |-> str, kv |-> <<>>]
JObj(kv) == [t |-> "obj", n |-> 0, s |-> "", kv |-> kv]
Member(k, v) == [k |-> k, v |-> v]

\* The serialised text of a value is a sequence of tokens.
Tok(c, lexeme) == [c |-> c, s |-> lexeme]
Digits == 0..9
NumOf(lexeme) == CHOOSE n \in Digits : ToString(n) = lexeme

RECURSIVE json_dumps(_), json_dumps_members(_)
\* utils.py:90, json.dumps
json_dumps(v) ==
    IF v.t = "num" THEN <<Tok("num", ToString(v.n))>>
    ELSE IF v.t = "str" THEN <<Tok("str", v.s)>>
    ELSE <<Tok("{", "")>> \o json_dumps_members(v.kv) \o <<Tok("}", "")>>

json_dumps_members(kv) ==
    IF kv = <<>> THEN <<>>
    ELSE <<Tok("str", Head(kv).k), Tok(":", "")>> \o json_dumps(Head(kv).v)
         \o (IF Len(kv) > 1 THEN <<Tok(",", "")>> ELSE <<>>)
         \o json_dumps_members(Tail(kv))

RECURSIVE json_parse_value(_, _), json_parse_members(_, _, _)
\* a value read at position i: [v, next]
json_parse_value(toks, i) ==
    IF toks[i].c = "num" THEN [v |-> JNum(NumOf(toks[i].s)), next |-> i + 1]
    ELSE IF toks[i].c = "str" THEN [v |-> JStr(toks[i].s), next |-> i + 1]
    ELSE IF toks[i + 1].c = "}" THEN [v |-> JObj(<<>>), next |-> i + 2]
    ELSE json_parse_members(toks, i + 1, <<>>)

\* the members of an object, from the key at position i
json_parse_members(toks, i, acc) ==
    LET r == json_parse_value(toks, i + 2)
        members == Append(acc, Member(toks[i].s, r.v))
    IN IF toks[r.next].c = "," THEN json_parse_members(toks, r.next + 1, members)
       ELSE [v |-> JObj(members), next |-> r.next + 1]

\* utils.py:166, json.loads
json_loads(toks) == json_parse_value(toks, 1).v

\* ------------------------------------------------------ Anthropic requests
\* A string is a sequence of pieces; "\n".join and " ".join put the
\* separator between the parts.
RECURSIVE Join(_, _)
Join(sep, parts) ==
    IF parts = <<>> THEN <<>>
    ELSE IF Len(parts) = 1 THEN parts[1]
    ELSE parts[1] \o <<sep>> \o Join(sep, Tail(parts))

\* A content block; type "missing" is a block without a type field.
\*   rkind: the content of a tool_result: "str" (rtext), "list" (rparts),
\*          "absent"
Block(type) ==
    [type |-> type, text |-> <<>>, source |-> "none", id |-> "", name |-> "",
     input |-> JObj(<<>>), tool_use_id |-> "", rkind |-> "absent",
     rtext |-> <<>>, rparts |-> <<>>]

TextBlock(t) == [Block("text") EXCEPT !.text = t]
ImageBlock(src) == [Block("image") EXCEPT !.source = src]
ToolUse(id, name, input) ==
    [Block("tool_use") EXCEPT !.id = id, !.name = name, !.input = input]
ToolResultStr(id, t) ==
    [Block("tool_result") EXCEPT !.tool_use_id = id, !.rkind = "str", !.rtext = t]
ToolResultList(id, parts) ==
    [Block("tool_result") EXCEPT !.tool_use_id = id, !.rkind = "list",
                                 !.rparts = parts]
ToolResultBare(id) == [Block("tool_result") EXCEPT !.tool_use_id = id]
Part(type, t) == [type |-> type, text |-> t]

CallIds == {"call_a", "call_b"}
Inputs ==
    {JObj(<<>>),
     JObj(<<Member("city", JStr("NYC"))>>),
     JObj(<<Member("x", JNum(1)), Member("y", JObj(<<Member("z", JNum(2))>>))>>)}

ToolResults ==
    {ToolResultStr(i, t) : i \in CallIds, t \in {<<"42">>, <<>>}}
    \cup {ToolResultList(i, p) : i \in CallIds,
            p \in {<<>>, <<Part("text", <<"x">>), Part("image", <<>>),
                           Part("text", <<"y">>)>>}}
    \cup {ToolResultBare(i) : i \in CallIds}

UserBlocks ==
    {TextBlock(<<"t1">>), ImageBlock("base64"), ImageBlock("url"),
     Block("unknown"), Block("missing")} \cup ToolResults
AssistantBlocks ==
    {TextBlock(<<"t1">>), TextBlock(<<"t2">>), Block("unknown"), Block("missing")}
    \cup {ToolUse(i, "f", j) : i \in CallIds, j \in Inputs}

\* A message; ckind is the Python type of its content: "str" (text),
\* "list" (blocks) or "other".
Msg(role, ckind, text, blocks) ==
    [role |-> role, ckind |-> ckind, text |-> text, blocks |-> blocks]

BlockLists(S) == UNION {[1..n -> S] : n \in 0..MaxBlocks}

Messages ==
    {Msg(r, "str", <<"hi">>, <<>>) : r \in {"user", "assistant", "system"}}
    \cup {Msg(r, "other", <<>>, <<>>) : r \in {"user", "assistant"}}
    \cup {Msg("user", "list", <<>>, b) : b \in BlockLists(UserBlocks)}
    \cup {Msg("assistant", "list", <<>>, b) : b \in BlockLists(AssistantBlocks)}

\* The history before and after the message under study.
Prefixes ==
    {<<>>, <<Msg("user", "str", <<"q">>, <<>>)>>,
     <<Msg("user", "str", <<"q">>, <<>>), Msg("assistant", "str", <<"a">>, <<>>)>>}
Suffixes == {<<>>, <<Msg("user", "str", <<"more">>, <<>>)>>}

\* tool_choice: its type ("absent" when the request has none or a falsy one,
\* "none" a type the translators do not know) and, for type tool, its name
NoToolChoice == [type |-> "absent", name |-> ""]
ToolChoices ==
    {NoToolChoice, [type |-> "auto", name |-> ""], [type |-> "any", name |-> ""],
     [type |-> "none", name |-> ""]}
    \cup {[type |-> "tool", name |-> n] : n \in {"f", "g"}}

\* system: "absent", "str" or "list" (text blocks "a", "b" and one other)
\* tools: "absent", "empty" (an empty list) or "some" (a list of one tool)
Requests ==
    {[system |-> sy, messages |-> pre \o m \o suf, stream |-> st,
      tools |-> "absent", tool_choice |-> NoToolChoice] :
       sy \in {"absent", "str", "list"}, pre \in Prefixes,
       m \in {<<>>} \cup {<<x>> : x \in Messages}, suf \in Suffixes,
       st \in {FALSE}}
    \cup
    {[system |-> "absent", messages |-> <<Msg("user", "str", <<"q">>, <<>>)>>,
      stream |-> FALSE, tools |-> t, tool_choice |-> tc] :
       t \in {"absent", "empty", "some"}, tc \in ToolChoices}

\* --------------------------------------------------- request translators
\* No body: the translator raised.
NoBody == [ok |-> FALSE, messages |-> <<>>, instructions |-> <<>>,
           continue_final_message |-> "absent",
           add_generation_prompt |-> "absent",
           tools |-> "absent", tool_choice |-> [kind |-> "absent", name |-> ""]]
NoReply == [of |-> 0, content |-> <<>>, stop_reason |-> "none"]
\* status 0: no response yet
NoAnswer == [endpoint |-> "none", sent |-> FALSE, status |-> 0]

\* An item of the outgoing list: a Chat-Completions message (type "chat")
\* or a Responses input item.
\*   ckind: "absent" (no content key), "str" (text) or "parts" (parts)
Item(type, role) ==
    [type |-> type, role |-> role, ckind |-> "absent", text |-> <<>>,
     parts |-> <<>>, tool_call_id |-> "", tool_calls |-> <<>>,
     call_id |-> "", name |-> "", arguments |-> <<>>, output |-> <<>>]

Translated(items) == [ok |-> TRUE, items |-> items]
Raised == [ok |-> FALSE, items |-> <<>>]

never_untyped(blocks) == FALSE

\* block["type"] raises KeyError for a block without a type field
HasUntyped(blocks) == \E i \in DOMAIN blocks : blocks[i].type = "missing"

MapSeq(f(_), seq) == [i \in DOMAIN seq |-> f(seq[i])]

\* utils.py:10-16
convert_image_source(source) ==
    IF source = "base64" THEN <<"data:", "image/png", ";base64,", "AAAA">>
    ELSE <<"https://img">>

never_tool_result(blocks) == FALSE

\* utils.py:41 and 354
is_tool_result(blocks) == \E i \in DOMAIN blocks : blocks[i].type = "tool_result"

\* the content as it is, empty when there is none
tool_content_as_is(block) ==
    IF block.rkind = "str" THEN block.rtext
    ELSE IF block.rkind = "list"
    THEN Join(" ", MapSeq(LAMBDA c : c.text,
                          SelectSeq(block.rparts, LAMBDA c : c.type = "text")))
    ELSE <<>>

\* utils.py:48-53 and 58: the string content of a tool message
tool_content(block) ==
    LET texts == SelectSeq(block.rparts, LAMBDA c : c.type = "text")
        tc == IF block.rkind = "str" THEN block.rtext
              ELSE IF block.rkind = "list"
                   THEN Join(" ", MapSeq(LAMBDA c : c.text, texts))
              ELSE <<>>
    IN IF tc = <<>> THEN <<"Success">> ELSE tc

\* utils.py:55-59
chat_tool_message(block) ==
    [Item("chat", "tool") EXCEPT !.tool_call_id = block.tool_use_id,
                                 !.ckind = "str", !.text = tool_content(block)]

\* utils.py:63-70
chat_user_part(block) ==
    IF block.type = "text" THEN [type |-> "text", text |-> block.text]
    ELSE [type |-> "image_url", text |-> convert_image_source(block.source)]

\* utils.py:35-72: the messages one user message becomes
chat_user_message(msg) ==
    IF msg.ckind = "str"
    THEN Translated(<<[Item("chat", "user") EXCEPT !.ckind = "str",
                                                   !.text = msg.text]>>)
    ELSE IF msg.ckind = "list"
    THEN IF HasUntyped(msg.blocks) THEN Raised
         ELSE IF is_tool_result(msg.blocks)
         THEN Translated(MapSeq(chat_tool_message,
                SelectSeq(msg.blocks, LAMBDA b : b.type = "tool_result")))
         ELSE Translated(<<[Item("chat", "user") EXCEPT
                !.ckind = "parts",
                !.parts = MapSeq(chat_user_part,
                   SelectSeq(msg.blocks, LAMBDA b : b.type \in {"text", "image"}))]>>)
    ELSE Translated(<<[Item("chat", "user") EXCEPT !.ckind = "parts"]>>)

chat_tool_call_without_input(block) ==
    [id |-> block.id, type |-> "function", name |-> block.name,
     arguments |-> json_dumps(JObj(<<>>))]

\* utils.py:85-92
chat_tool_call(block) ==
    [id |-> block.id, type |-> "function", name |-> block.name,
     arguments |-> json_dumps(block.input)]

\* utils.py:74-99: the message one assistant message becomes
chat_assistant_message(msg) ==
    IF msg.ckind = "str"
    THEN Translated(<<[Item("chat", "assistant") EXCEPT !.ckind = "str",
                                                        !.text = msg.text]>>)
    ELSE IF msg.ckind = "list"
    THEN IF HasUntyped(msg.blocks) THEN Raised
         ELSE
           LET text_parts == MapSeq(LAMBDA b : b.text,
                               SelectSeq(msg.blocks, LAMBDA b : b.type = "text"))
               tool_calls == MapSeq(chat_tool_call,
                               SelectSeq(msg.blocks, LAMBDA b : b.type = "tool_use"))
           IN Translated(<<[Item("chat", "assistant") EXCEPT
                  !.ckind = IF text_parts # <<>> THEN "str" ELSE "absent",
                  !.text = Join("\n", text_parts),
                  !.tool_calls = tool_calls]>>)
    ELSE Translated(<<Item("chat", "assistant")>>)

\* utils.py:31-99: the loop over the messages; other roles are skipped
RECURSIVE chat_messages(_)
chat_messages(msgs) ==
    IF msgs = <<>> THEN Translated(<<>>)
    ELSE
      LET m == Head(msgs)
          one == IF m.role = "user" THEN chat_user_message(m)
                 ELSE IF m.role = "assistant" THEN chat_assistant_message(m)
                 ELSE Translated(<<>>)
          rest == chat_messages(Tail(msgs))
      IN IF one.ok /\ rest.ok THEN Translated(one.items \o rest.items)
         ELSE Raised

\* utils.py:23-28 and 332-338: the system prompt as one string
system_text(system) ==
    IF system = "list"
    THEN Join("\n", MapSeq(LAMBDA b : b.text,
           SelectSeq(<<TextBlock(<<"a">>), Block("unknown"), TextBlock(<<"b">>)>>,
                     LAMBDA b : b.type = "text")))
    ELSE <<"sys">>

first_role(messages) == messages[1].role

\* utils.py:102-112 and 420-428: the outgoing tools list, [] when the
\* request has none
translated_tools(body) == IF body.tools = "some" THEN "some" ELSE "empty"

\* utils.py:140-147 and 455-464
map_tool_choice(tc) ==
    IF tc.type = "any" THEN [kind |-> "required", name |-> ""]
    ELSE IF tc.type = "auto" THEN [kind |-> "auto", name |-> ""]
    ELSE IF tc.type = "tool" THEN [kind |-> "function", name |-> tc.name]
    ELSE [kind |-> "absent", name |-> ""]

\* utils.py:137-139 and 452-454: the tools and tool_choice keys of the body
body_tools(body) ==
    IF translated_tools(body) # "empty" THEN "some" ELSE "absent"
body_tool_choice(body) ==
    IF translated_tools(body) # "empty" /\ body.tool_choice.type # "absent"
    THEN map_tool_choice(body.tool_choice)
    ELSE [kind |-> "absent", name |-> ""]

\* utils.py:123: the role the prefill hint is decided on
prefill_role(messages) == messages[Len(messages)].role

\* utils.py:18-149
transform_request_body(body) ==
    LET sys == IF body.system # "absent"
               THEN <<[Item("chat", "system") EXCEPT !.ckind = "str",
                                                     !.text = system_text(body.system)]>>
               ELSE <<>>
        history == chat_messages(body.messages)
        openai_messages == sys \o history.items
    IN IF ~history.ok \/ openai_messages = <<>> THEN NoBody
       ELSE
         LET prefill == prefill_role(openai_messages) = "assistant"
         IN [ok |-> TRUE, messages |-> openai_messages, instructions |-> <<>>,
             continue_final_message |-> IF prefill THEN "true" ELSE "absent",
             add_generation_prompt |-> IF prefill THEN "false" ELSE "absent",
             tools |-> body_tools(body),
             tool_choice |-> body_tool_choice(body)]

\* ------------------------------------------------------ configuration
\* A URL is a sequence of pieces; `needle in url` is Python's substring test.
Urls ==
    {<<"host", "/v1", "/chat/completions">>,
     <<"host", "/v1", "/responses">>,
     <<"host", "/openai", "/v1", "/chat/completions">>,
     <<"host", "/v1", "/responses", "/x">>,
     <<"host", "/responses", "/v1">>,
     <<"host", "/v1", "/x", "/responses">>,
     <<"host", "/v1">>,
     <<"host", "/v1", "/responses", "/v1", "/chat/completions">>}
V1_RESPONSES == <<"/v1", "/responses">>
V1_CHAT_COMPLETIONS == <<"/v1", "/chat/completions">>

Contains(needle, url) ==
    \E i \in 1..(Len(url) - Len(needle) + 1) :
      SubSeq(url, i, i + Len(needle) - 1) = needle

\* A key is "none" (None), "" or a value; None and "" are falsy.
Truthy(k) == k \notin {"none", ""}
ConfigKeys == {"none", "key_cfg"}
HeaderKeys == {"none", "", "key_hdr"}

\* constants.py:21-29
AppConfig_detect_api_type(url) ==
    IF Contains(V1_RESPONSES, url) THEN "v1_responses"
    ELSE IF Contains(V1_CHAT_COMPLETIONS, url) THEN "v1_chat_completions"
    ELSE "v1_chat_completions"

\* constants.py:11-19
AppConfig_init(url, key) ==
    [OPENAI_BASE_URL |-> url, OPENAI_API_KEY |-> key,
     API_TYPE |-> AppConfig_detect_api_type(url)]

\* AppConfig.update without the call of _detect_api_type
AppConfig_update_no_detect(c, base_url, api_key) ==
    LET c1 == IF base_url # <<>> THEN [c EXCEPT !.OPENAI_BASE_URL = base_url]
              ELSE c
    IN IF Truthy(api_key) THEN [c1 EXCEPT !.OPENAI_API_KEY = api_key] ELSE c1

\* constants.py:37-43; base_url and api_key are None (or falsy) when not given
AppConfig_update(c, base_url, api_key) ==
    LET c1 == IF base_url # <<>>
              THEN [c EXCEPT !.OPENAI_BASE_URL = base_url,
                             !.API_TYPE = AppConfig_detect_api_type(base_url)]
              ELSE c
    IN IF Truthy(api_key) THEN [c1 EXCEPT !.OPENAI_API_KEY = api_key] ELSE c1

\* ------------------------------------------------- POST /v1/messages
\* The handler's position and locals, what it sent upstream and what it
\* answered.
\*   pc: "idle", "json" (awaiting request.json()), "send" (awaiting
\*       client.send), "done"
\*   body: "ok", "malformed" (request.json() raises), "untranslatable" (the
\*       request translator raises)
\*   via: the function the upstream body went through
NoRequest ==
    [pc |-> "idle", x_api_key |-> "none", stream |-> FALSE, body |-> "ok",
     target_api_key |-> "none", flavor |-> "none", sent |-> FALSE,
     url |-> <<>>, bearer |-> "none", translator |-> "none",
     upstream_status |-> 0, status |-> 0, shape |-> "none", etype |-> "none",
     via |-> "none"]

NoHttp ==
    /\ config = AppConfig_init(<<"host">>, "none")
    /\ rq = NoRequest

NoXlate ==
    /\ xflavor = "none"
    /\ areq = [system |-> "absent", messages |-> <<>>, stream |-> FALSE,
               tools |-> "absent", tool_choice |-> NoToolChoice]
    /\ tbody = [done |-> FALSE, body |-> NoBody]
    /\ aresp = NoReply
    /\ answer = NoAnswer

UpstreamStatuses == {200, 201, 400, 500}
\* the upstream's body: an object with error.type and error.message, an
\* object without error, an object whose error is a string, or no JSON
UpstreamBodies == {"typed_error", "no_error", "string_error", "not_json"}

\* messages.py:83-93: whatever the try block raises, an HTTPException too,
\* is caught and answered as HTTPException(500, detail=<envelope>).
raise_in_try(r, status) ==
    [r EXCEPT !.pc = "done", !.status = 500, !.shape = "detail",
              !.etype = "internal_server_error"]

\* messages.py:21-23
check_api_key(r, cfg) ==
    LET target_api_key == IF Truthy(r.x_api_key) THEN r.x_api_key
                          ELSE cfg.OPENAI_API_KEY
    IN IF ~Truthy(target_api_key)
       THEN raise_in_try(r, 401)
       ELSE [r EXCEPT !.pc = "json", !.target_api_key = target_api_key]

\* messages.py:30-39: the translators bound for this request
select_flavor(api_type) ==
    IF api_type = "v1_responses" THEN "v1_responses" ELSE "v1_chat_completions"

request_translator(flavor) ==
    IF flavor = "v1_responses" THEN "transform_request_body_v1_responses"
    ELSE "transform_request_body"
response_translator(flavor) ==
    IF flavor = "v1_responses" THEN "transform_v1_responses_response"
    ELSE "transform_openai_response"
stream_transducer(flavor) ==
    IF flavor = "v1_responses" THEN "stream_v1_responses_to_anthropic"
    ELSE "stream_openai_to_anthropic"

\* messages.py:26-54: from the parsed body to the built upstream request
translate_and_build(r, cfg) ==
    IF r.body = "malformed" THEN raise_in_try(r, 500)
    ELSE
      LET flavor == select_flavor(cfg.API_TYPE)
      IN IF r.body = "untranslatable"
         THEN raise_in_try([r EXCEPT !.flavor = flavor,
                                     !.translator = request_translator(flavor)], 500)
         ELSE [r EXCEPT !.pc = "send", !.flavor = flavor,
                        !.translator = request_translator(flavor),
                        !.sent = TRUE, !.url = cfg.OPENAI_BASE_URL,
                        !.bearer = r.target_api_key]

\* messages.py:66: the upstream statuses the unary path takes for an error
unary_is_error(status) == status # 200

\* messages.py:57-81
handle_response(r, status, body) ==
    LET r1 == [r EXCEPT !.upstream_status = status]
    IN IF r.stream
       THEN [r1 EXCEPT !.pc = "done", !.status = 200, !.shape = "sse",
                       !.via = stream_transducer(r.flavor)]
       ELSE IF unary_is_error(status)
       THEN IF body \in {"not_json", "string_error"}
            THEN raise_in_try(r1, 500)
            ELSE [r1 EXCEPT !.pc = "done", !.status = status,
                            !.shape = "envelope",
                            !.etype = IF body = "typed_error" THEN "upstream"
                                      ELSE "invalid_request_error"]
       ELSE IF body = "not_json"
            THEN raise_in_try(r1, 500)
            ELSE [r1 EXCEPT !.pc = "done", !.status = 200, !.shape = "message",
                            !.via = response_translator(r.flavor)]

Update ==
    /\ \E base_url \in Urls \cup {<<>>}, api_key \in ConfigKeys :
         config' = AppConfig_update(config, base_url, api_key)
    /\ UNCHANGED <<rq, streamVars, xlateVars, concVars>>

Arrive ==
    /\ rq.pc \in {"idle", "done"}
    /\ \E h \in HeaderKeys, st \in BOOLEAN,
          b \in {"ok", "malformed", "untranslatable"} :
         rq' = check_api_key(
                 [NoRequest EXCEPT !.x_api_key = h, !.stream = st, !.body = b],
                 config)
    /\ UNCHANGED <<config, streamVars, xlateVars, concVars>>

TranslateAndBuild ==
    /\ rq.pc = "json"
    /\ rq' = translate_and_build(rq, config)
    /\ UNCHANGED <<config, streamVars, xlateVars, concVars>>

UpstreamReply ==
    /\ rq.pc = "send"
    /\ \E s \in UpstreamStatuses, b \in UpstreamBodies :
         rq' = handle_response(rq, s, b)
    /\ UNCHANGED <<config, streamVars, xlateVars, concVars>>



\* ------------------------------------------------ one streamed response
NewStream ==
    [pc |-> "new", cbi |-> 0, cci |-> 0, started |-> FALSE, ev |-> "unset",
     open |-> [i \in 0..MaxOutputIndex |-> "absent"], out |-> <<>>]

\* What the upstream has sent so far: the chunks with finish_reason that
\* reached the stop-reason branch, the last index a new tool call / output
\* item carried, and whether those indices only ever grew.
\* Also: whether a line that is not JSON has arrived, and the transducer
\* as it would be had those lines not been sent.
\* And, of a Responses upstream: whether a response.created with a JSON
\* payload has arrived, and whether another event with a JSON payload
\* arrived before it.
NoHist == [fin |-> 0, last |-> Absent, ordered |-> TRUE,
           dropped |-> FALSE, clean |-> NewStream,
           created |-> FALSE, early |-> FALSE]

ChatReachesFinish(c) ==
    c.k = "chunk" /\ c.hasDelta /\ ~(c.hasTc /\ c.tcIndex = Absent) /\ c.fin # "none"

ChatHist(h, c) ==
    LET tool == c.k = "chunk" /\ c.hasDelta /\ c.hasTc /\ c.tcIndex # Absent
    IN [fin |-> h.fin + (IF ChatReachesFinish(c) THEN 1 ELSE 0),
        last |-> IF tool THEN c.tcIndex ELSE h.last,
        ordered |-> h.ordered /\ (tool => c.tcIndex >= h.last),
        dropped |-> h.dropped \/ c.k = "badjson",
        clean |-> IF c.k = "badjson" THEN h.clean
                  ELSE stream_openai_line(h.clean, c),
        created |-> h.created, early |-> h.early]

RespOpensBlock(st, l) ==
    /\ l.k = "data" /\ l.pk = "object"
    /\ st.ev = "response.output_item.added"
    /\ l.item_type \in {"message", "function_call"}

RespHist(h, st, l) ==
    LET idx == IF l.output_index = Absent THEN st.cbi ELSE l.output_index
        bad == l.k = "data" /\ l.pk = "badjson"
        json == l.k = "data" /\ l.pk \in {"scalar", "object"}
        seen == [h EXCEPT !.dropped = @ \/ bad,
                          !.clean = IF bad THEN @
                                    ELSE stream_v1_responses_line(@, l),
                          !.created = @ \/ (json /\ st.ev = "response.created"),
                          !.early = @ \/ (json /\ ~h.created
                                            /\ st.ev # "response.created")]
    IN IF RespOpensBlock(st, l)
       THEN [seen EXCEPT !.last = idx, !.ordered = @ /\ idx > h.last]
       ELSE seen

NoUpstream == [phase |-> "off", item |-> 0, type |-> "absent", deltas |-> 0]

NoStreams == streams = <<>> /\ arrivals = <<>>

StreamInit ==
    /\ NoStreams
    /\ api \in {"chat", "resp"}
    /\ ts = NewStream
    /\ nlines = 0
    /\ hist = NoHist
    /\ up = NoUpstream
    /\ NoHttp
    /\ NoXlate

Begin ==
    /\ ts.pc = "new"
    /\ ts' = IF api = "chat" THEN stream_openai_begin(ts)
             ELSE stream_v1_responses_begin(ts)
    /\ hist' = [hist EXCEPT !.clean = IF api = "chat" THEN stream_openai_begin(@)
                                      ELSE stream_v1_responses_begin(@)]
    /\ UNCHANGED <<api, nlines, up, httpVars, xlateVars, concVars>>

ChatLine ==
    /\ api = "chat" /\ ts.pc = "loop" /\ nlines < MaxChatLines
    /\ \E c \in ChatLines :
         /\ ts' = stream_openai_line(ts, c)
         /\ hist' = ChatHist(hist, c)
    /\ nlines' = nlines + 1
    /\ UNCHANGED <<api, up, httpVars, xlateVars, concVars>>

RespLineStep ==
    /\ api = "resp" /\ ts.pc = "loop" /\ nlines < MaxRespLines
    /\ \E l \in RespLines(ts.ev) :
         /\ ts' = stream_v1_responses_line(ts, l)
         /\ hist' = RespHist(hist, ts, l)
    /\ nlines' = nlines + 1
    /\ UNCHANGED <<api, up, httpVars, xlateVars, concVars>>

Close ==
    /\ ts.pc = "loop"
    /\ ts' = IF api = "chat" THEN stream_openai_close(ts)
             ELSE stream_v1_responses_close(ts)
    /\ hist' = [hist EXCEPT !.clean = IF api = "chat" THEN stream_openai_close(@)
                                      ELSE stream_v1_responses_close(@)]
    /\ UNCHANGED <<api, nlines, up, httpVars, xlateVars, concVars>>

StreamNext == Begin \/ ChatLine \/ RespLineStep \/ Close

SpecStream == StreamInit /\ [][StreamNext]_vars

\* ------------------------- a Responses upstream that follows the protocol
\* response.created, then per output item k = 0, 1, ...: output_item.added
\* (output_index k), its deltas, output_item.done (output_index k); then
\* response.completed and the end of the body. Each record is an "event: "
\* line followed by its "data: " line.
Feed(st, name, payload) ==
    stream_v1_responses_line(
        stream_v1_responses_line(st, RespLine("event", name)), payload)

StdInit ==
    /\ NoStreams
    /\ api = "resp"
    /\ ts = stream_v1_responses_begin(NewStream)
    /\ nlines = 0
    /\ hist = NoHist
    /\ up = [phase |-> "created", item |-> 0, type |-> "absent", deltas |-> 0]
    /\ NoHttp
    /\ NoXlate

StdCreated ==
    /\ up.phase = "created"
    /\ ts' = Feed(ts, "response.created", RespObject)
    /\ up' = [up EXCEPT !.phase = "idle"]
    /\ UNCHANGED <<api, nlines, hist, httpVars, xlateVars, concVars>>

StdItemAdded ==
    /\ up.phase = "idle" /\ up.item < MaxItems
    /\ \E t \in {"message", "function_call"} :
         /\ ts' = Feed(ts, "response.output_item.added",
                       [RespObject EXCEPT !.output_index = up.item,
                                          !.item_type = t, !.item_id = "call_a"])
         /\ up' = [up EXCEPT !.phase = "open", !.type = t, !.deltas = 0]
    /\ UNCHANGED <<api, nlines, hist, httpVars, xlateVars, concVars>>

StdDelta ==
    /\ up.phase = "open" /\ up.deltas < MaxDeltas
    /\ ts' = Feed(ts, IF up.type = "message" THEN "response.output_text.delta"
                      ELSE "response.function_call_delta",
                  [RespObject EXCEPT !.delta = "a"])
    /\ up' = [up EXCEPT !.deltas = @ + 1]
    /\ UNCHANGED <<api, nlines, hist, httpVars, xlateVars, concVars>>

StdItemDone ==
    /\ up.phase = "open"
    /\ ts' = Feed(ts, "response.output_item.done",
                  [RespObject EXCEPT !.output_index = up.item])
    /\ up' = [up EXCEPT !.phase = "idle", !.item = @ + 1]
    /\ UNCHANGED <<api, nlines, hist, httpVars, xlateVars, concVars>>

StdCompleted ==
    /\ up.phase = "idle"
    /\ \E b \in BOOLEAN :
         ts' = Feed(ts, "response.completed", [RespObject EXCEPT !.has_fn = b])
    /\ up' = [up EXCEPT !.phase = "completed"]
    /\ UNCHANGED <<api, nlines, hist, httpVars, xlateVars, concVars>>

StdClose ==
    /\ up.phase = "completed" /\ ts.pc = "loop"
    /\ ts' = stream_v1_responses_close(ts)
    /\ UNCHANGED <<api, nlines, hist, up, httpVars, xlateVars, concVars>>

StdNext ==
    StdCreated \/ StdItemAdded \/ StdDelta \/ StdItemDone \/ StdCompleted
    \/ StdClose

SpecRespStd == StdInit /\ [][StdNext]_vars

\* -------------------------------------- the handler on its own
NoStream ==
    /\ api = "chat" /\ ts = NewStream /\ nlines = 0 /\ hist = NoHist
    /\ up = NoUpstream
    /\ NoStreams

HttpInit ==
    /\ \E url \in Urls, key \in ConfigKeys : config = AppConfig_init(url, key)
    /\ rq = NoRequest
    /\ NoStream
    /\ NoXlate

HttpNext == Update \/ Arrive \/ TranslateAndBuild \/ UpstreamReply

SpecHttp == HttpInit /\ [][HttpNext]_vars

\* utils.py:368-372
resp_tool_output(block) ==
    [Item("custom_tool_call_output", "") EXCEPT
       !.call_id = block.tool_use_id, !.output = tool_content(block)]

\* utils.py:376-383
resp_user_part(block) ==
    IF block.type = "text" THEN [type |-> "input_text", text |-> block.text]
    ELSE [type |-> "input_image", text |-> convert_image_source(block.source)]

\* utils.py:345-388: the input items one user message becomes
resp_user_items(msg) ==
    IF msg.ckind = "str"
    THEN Translated(<<[Item("message", "user") EXCEPT
           !.ckind = "parts",
           !.parts = <<[type |-> "input_text", text |-> msg.text]>>]>>)
    ELSE IF msg.ckind = "list"
    THEN IF HasUntyped(msg.blocks) THEN Raised
         ELSE IF is_tool_result(msg.blocks)
         THEN Translated(MapSeq(resp_tool_output,
                SelectSeq(msg.blocks, LAMBDA b : b.type = "tool_result")))
         ELSE Translated(<<[Item("message", "user") EXCEPT
                !.ckind = "parts",
                !.parts = MapSeq(resp_user_part,
                   SelectSeq(msg.blocks, LAMBDA b : b.type \in {"text", "image"}))]>>)
    ELSE Translated(<<>>)

\* utils.py:406-411
resp_function_call(block) ==
    [Item("function_call", "") EXCEPT
       !.call_id = block.id, !.name = block.name,
       !.arguments = json_dumps(block.input)]

\* utils.py:390-417: the input items one assistant message becomes: its
\* function calls as they come, then one message of its texts, if any
resp_assistant_items(msg) ==
    IF msg.ckind = "str"
    THEN Translated(<<[Item("message", "assistant") EXCEPT
           !.ckind = "parts",
           !.parts = <<[type |-> "output_text", text |-> msg.text]>>]>>)
    ELSE IF msg.ckind = "list"
    THEN IF HasUntyped(msg.blocks) THEN Raised
         ELSE
           LET content_blocks ==
                 MapSeq(LAMBDA b : [type |-> "output_text", text |-> b.text],
                        SelectSeq(msg.blocks, LAMBDA b : b.type = "text"))
               calls == MapSeq(resp_function_call,
                          SelectSeq(msg.blocks, LAMBDA b : b.type = "tool_use"))
           IN Translated(calls \o
                (IF content_blocks # <<>>
                 THEN <<[Item("message", "assistant") EXCEPT
                           !.ckind = "parts", !.parts = content_blocks]>>
                 ELSE <<>>))
    ELSE Translated(<<>>)

\* utils.py:341-417
RECURSIVE resp_input_items(_)
resp_input_items(msgs) ==
    IF msgs = <<>> THEN Translated(<<>>)
    ELSE
      LET m == Head(msgs)
          one == IF m.role = "user" THEN resp_user_items(m)
                 ELSE IF m.role = "assistant" THEN resp_assistant_items(m)
                 ELSE Translated(<<>>)
          rest == resp_input_items(Tail(msgs))
      IN IF one.ok /\ rest.ok THEN Translated(one.items \o rest.items)
         ELSE Raised

\* utils.py:317-466
transform_request_body_v1_responses(body) ==
    LET input_items == resp_input_items(body.messages)
    IN IF ~input_items.ok THEN NoBody
       ELSE [ok |-> TRUE, messages |-> input_items.items,
             instructions |-> IF body.system # "absent"
                              THEN system_text(body.system) ELSE <<>>,
             continue_final_message |-> "absent",
             add_generation_prompt |-> "absent",
             tools |-> body_tools(body),
             tool_choice |-> body_tool_choice(body)]

\* ------------------------------------------------- response translator
\* utils.py:161-167
reply_tool_use(tc) == ToolUse(tc.id, tc.name, json_loads(tc.arguments))

\* utils.py:169-172
unary_stop_reason(finish_reason) ==
    IF finish_reason = "tool_calls" THEN "tool_use"
    ELSE IF finish_reason = "length" THEN "max_tokens"
    ELSE "end_turn"

\* utils.py:151-186; message is choices[0].message, its content <<>> when
\* it is absent, null or empty
transform_openai_response(message, finish_reason) ==
    [content |-> (IF message.text # <<>> THEN <<TextBlock(message.text)>>
                  ELSE <<>>)
                 \o MapSeq(reply_tool_use, message.tool_calls),
     stop_reason |-> unary_stop_reason(finish_reason)]

\* ---------------------------------------------- one request translated
WithRole(items, role) == SelectSeq(items, LAMBDA m : m.role = role)

XlateInit ==
    /\ xflavor \in {"v1_chat_completions", "v1_responses"}
    /\ areq \in Requests
    /\ tbody = [done |-> FALSE, body |-> NoBody]
    /\ aresp = NoReply
    /\ answer = NoAnswer
    /\ NoStream
    /\ NoHttp

\* messages.py:30-39
Translate ==
    /\ ~tbody.done
    /\ tbody' = [done |-> TRUE,
                 body |-> IF xflavor = "v1_responses"
                          THEN transform_request_body_v1_responses(areq)
                          ELSE transform_request_body(areq)]
    /\ UNCHANGED <<xflavor, areq, aresp, answer, streamVars, httpVars, concVars>>

\* messages.py:78: a unary Chat-Completions upstream answers with the k-th
\* assistant message of the request it was sent
EchoReply ==
    /\ xflavor = "v1_chat_completions" /\ tbody.done /\ tbody.body.ok
    /\ answer.sent /\ aresp.of = 0
    /\ \E k \in DOMAIN WithRole(tbody.body.messages, "assistant"),
          fin \in {"stop", "tool_calls", "length"} :
         LET r == transform_openai_response(
                    WithRole(tbody.body.messages, "assistant")[k], fin)
         IN aresp' = [of |-> k, content |-> r.content,
                      stop_reason |-> r.stop_reason]
    /\ UNCHANGED <<xflavor, areq, tbody, answer, streamVars, httpVars, concVars>>

\* the request sent whatever the translator did
forwarded_always(body) == TRUE

\* messages.py:41-65: the upstream request is built and sent after the
\* translator returned; a translator that raised leaves the try block
forwarded(body) == body.ok

\* messages.py:41-65 and 83-93: POST /v1/messages once the body is translated
Forward ==
    /\ tbody.done /\ answer.endpoint = "none"
    /\ answer' = [endpoint |-> "messages", sent |-> forwarded(tbody.body),
                  status |-> IF forwarded(tbody.body) THEN 0 ELSE 500]
    /\ UNCHANGED <<xflavor, areq, tbody, aresp, streamVars, httpVars, concVars>>

\* count_tokens.py:37-59: POST /v1/messages/count_tokens, which translates
\* with the Chat-Completions translator whatever the configured flavor
CountTokens ==
    /\ ~tbody.done /\ answer.endpoint = "none"
    /\ answer' = [endpoint |-> "count_tokens", sent |-> FALSE,
                  status |-> IF transform_request_body(areq).ok THEN 200
                             ELSE 500]
    /\ UNCHANGED <<xflavor, areq, tbody, aresp, streamVars, httpVars, concVars>>

XlateNext == Translate \/ EchoReply \/ Forward \/ CountTokens

SpecXlate == XlateInit /\ [][XlateNext]_vars

\* ------------------------------------- streamed responses side by side
\* Each call of a transducer is a generator of its own: msg_id,
\* current_block_index, message_started, event_type are its locals
\* (utils.py:191-198, 544-548). The lines of the different upstreams arrive
\* in any order; what a generator does with a line is one step.
MaxConcLines == 4      \* upstream lines arriving, all requests together
Concurrent == 1..2

ConcChatLines ==
    {c \in ChatLines :
       /\ c.k = "chunk" /\ c.hasDelta
       /\ \/ ~c.hasTc /\ c.content \in Frags /\ c.fin \in {"none", "stop"}
          \/ c.hasTc /\ c.tcIndex \in {0, MaxToolIndex} /\ c.tcId \in ToolIds
               /\ c.args \in Frags /\ c.fin = "none" /\ c.content = "none"}

ConcRespLines(ev) ==
    {l \in RespLines(ev) :
       \/ l.k = "event" /\ l.name \in {"response.created",
              "response.output_item.added"}
       \/ l.k = "data" /\ l.pk = "object" /\ l.item_id = "absent"
            /\ l.item_type \in {"absent", "message"}
            /\ l.content_index = Absent /\ l.delta = "absent"
            /\ (ev = "response.output_item.added" =>
                  l.output_index \in {0, MaxOutputIndex} /\ l.item_type = "message")}

\* one current_block_index for all the generators
module_level_index(all, r) == [all[r].ts EXCEPT !.cbi = all[1].ts.cbi]

\* the locals the generator of request r works on
generator_state(all, r) == all[r].ts

\* one step of a transducer on a line
transduce(a, st, l) ==
    IF a = "chat" THEN stream_openai_line(st, l)
    ELSE stream_v1_responses_line(st, l)

\* the transducer run alone on the lines, from its first yield
RECURSIVE run_alone(_, _, _)
run_alone(a, st, lines) ==
    IF lines = <<>> THEN st
    ELSE run_alone(a, transduce(a, st, Head(lines)), Tail(lines))

begun(a) ==
    IF a = "chat" THEN stream_openai_begin(NewStream)
    ELSE stream_v1_responses_begin(NewStream)

closed(a, st) ==
    IF a = "chat" THEN stream_openai_close(st)
    ELSE stream_v1_responses_close(st)

ConcInit ==
    /\ streams \in [Concurrent ->
           {[api |-> a, ts |-> NewStream, lines |-> <<>>] : a \in {"chat", "resp"}}]
    /\ arrivals = <<>>
    /\ api = "chat" /\ ts = NewStream /\ nlines = 0 /\ hist = NoHist
    /\ up = NoUpstream
    /\ NoHttp
    /\ NoXlate

ConcBegin ==
    /\ \E r \in Concurrent :
         /\ streams[r].ts.pc = "new"
         /\ streams' = [streams EXCEPT ![r].ts = begun(streams[r].api)]
    /\ UNCHANGED <<arrivals, streamVars, httpVars, xlateVars>>

ConcLine ==
    /\ Len(arrivals) < MaxConcLines
    /\ \E r \in Concurrent :
         /\ streams[r].ts.pc = "loop"
         /\ \E l \in IF streams[r].api = "chat" THEN ConcChatLines
                     ELSE ConcRespLines(streams[r].ts.ev) :
              streams' = [streams EXCEPT
                 ![r].ts = transduce(streams[r].api,
                                     generator_state(streams, r), l),
                 ![r].lines = Append(@, l)]
         /\ arrivals' = Append(arrivals, r)
    /\ UNCHANGED <<streamVars, httpVars, xlateVars>>

ConcClose ==
    /\ \E r \in Concurrent :
         /\ streams[r].ts.pc = "loop"
         /\ streams' = [streams EXCEPT
               ![r].ts = closed(streams[r].api, generator_state(streams, r))]
    /\ UNCHANGED <<arrivals, streamVars, httpVars, xlateVars>>

ConcNext == ConcBegin \/ ConcLine \/ ConcClose

SpecConc == ConcInit /\ [][ConcNext]_vars

\* ------------------ a Chat-Completions upstream in the standard order
\* Text chunks, then tool-call chunks whose tool index starts at 0 and grows
\* by at most one, the first chunk of each tool carrying its id, then one
\* chunk with finish_reason, then the end of the body.
MaxStdChunks == 4      \* chunks of one standard stream

TextChunk(content) ==
    [NoChunk("chunk") EXCEPT !.hasDelta = TRUE, !.content = content]
ToolChunk(index, id, args) ==
    [NoChunk("chunk") EXCEPT !.hasDelta = TRUE, !.hasTc = TRUE,
                             !.tcIndex = index, !.tcId = id, !.args = args]
FinishChunk(reason) ==
    [NoChunk("chunk") EXCEPT !.hasDelta = TRUE, !.fin = reason]

ChatStdInit ==
    /\ NoStreams
    /\ api = "chat"
    /\ ts = stream_openai_begin(NewStream)
    /\ nlines = 0
    /\ hist = NoHist
    /\ up = [phase |-> "text", tool |-> Absent, log |-> <<>>]
    /\ NoHttp
    /\ NoXlate

ChatStdSend(c, phase) ==
    /\ ts' = stream_openai_line(ts, c)
    /\ up' = [phase |-> phase,
              tool |-> IF c.hasTc THEN c.tcIndex ELSE up.tool,
              log |-> Append(up.log, c)]
    /\ UNCHANGED <<api, nlines, hist, httpVars, xlateVars, concVars>>

ChatStdText ==
    /\ up.phase = "text" /\ Len(up.log) < MaxStdChunks
    /\ \E content \in {""} \cup Frags : ChatStdSend(TextChunk(content), "text")

ChatStdToolFirst ==
    /\ up.phase \in {"text", "tools"} /\ Len(up.log) < MaxStdChunks
    /\ up.tool < MaxToolIndex
    /\ \E id \in {"call_a", "call_b"}, args \in {"absent", ""} \cup Frags :
         ChatStdSend(ToolChunk(up.tool + 1, id, args), "tools")

ChatStdToolMore ==
    /\ up.phase = "tools" /\ Len(up.log) < MaxStdChunks
    /\ \E args \in {"absent", ""} \cup Frags :
         ChatStdSend(ToolChunk(up.tool, "absent", args), "tools")

ChatStdFinish ==
    /\ up.phase \in {"text", "tools"}
    /\ \E reason \in {"stop", "tool_calls", "length"} :
         ChatStdSend(FinishChunk(reason), "finished")

ChatStdClose ==
    /\ up.phase = "finished" /\ ts.pc = "loop"
    /\ ts' = stream_openai_close(ts)
    /\ UNCHANGED <<api, nlines, hist, up, httpVars, xlateVars, concVars>>

ChatStdNext ==
    ChatStdText \/ ChatStdToolFirst \/ ChatStdToolMore \/ ChatStdFinish
    \/ ChatStdClose

SpecChatStd == ChatStdInit /\ [][ChatStdNext]_vars

\* ------------------------------------------------ reading the output
Out == ts.out
At(type) == {i \in DOMAIN Out : Out[i].type = type}
AtIndex(type, x) == {i \in At(type) : Out[i].index = x}
Finished == ts.pc = "done"

\* ---------------------------------------------------------------- C1
\* C1 (bracketing): in a finished output stream, every index x that appears
\* in a content_block_delta has exactly one content_block_start at x, which
\* precedes the delta, and exactly one content_block_stop at x, which
\* follows it.
C1_Bracketing ==
    Finished =>
      \A d \in At("content_block_delta") :
        LET x == Out[d].index
        IN /\ Cardinality(AtIndex("content_block_start", x)) = 1
           /\ \A b \in AtIndex("content_block_start", x) : b < d
           /\ Cardinality(AtIndex("content_block_stop", x)) = 1
           /\ \A e \in AtIndex("content_block_stop", x) : d < e

\* ---------------------------------------------------------------- C2
\* C2 (monotone indices), as claimed: whatever the upstream sends, the
\* indices of the emitted content_block_start events are strictly
\* increasing.
C2_MonotoneStarts ==
    \A i, j \in At("content_block_start") :
      i < j => Out[i].index < Out[j].index

\* C2, amended: the indices of the emitted content_block_start events are
\* strictly increasing as long as the upstream's own indices grow: in the
\* Chat-Completions stream no tool-call chunk carries a lower tool index than
\* the chunk before it, in the Responses stream every output_item.added that
\* opens a block carries a higher output index than the one before it.
C2_MonotoneStartsOfOrderedUpstream ==
    hist.ordered => C2_MonotoneStarts

\* Both transducers have opened blocks past the first from an ordered
\* upstream: three starts in one finished response.
C2_Witness ==
    /\ Finished /\ hist.ordered
    /\ Cardinality(At("content_block_start")) >= 3

\* ---------------------------------------------------------------- C3
\* C3 (single stop reason), as claimed: a finished Chat-Completions output
\* holds exactly one message_delta and exactly one message_stop, the
\* message_delta first, however many chunks carried a finish_reason.
C3_SingleStopReason ==
    (api = "chat" /\ Finished) =>
      /\ Cardinality(At("message_delta")) = 1
      /\ Cardinality(At("message_stop")) = 1
      /\ \A m \in At("message_delta") : \A e \in At("message_stop") : m < e

\* C3, amended: a finished Chat-Completions output holds exactly one
\* message_stop, as its last event, and one message_delta per upstream chunk
\* whose finish_reason is set and reaches the stop-reason branch: exactly
\* one when the upstream sends one such chunk, none when it sends none,
\* several when it sends several.
C3_StopReasonPerFinishChunk ==
    (api = "chat" /\ Finished) =>
      /\ Cardinality(At("message_stop")) = 1
      /\ Out[Len(Out)].type = "message_stop"
      /\ Cardinality(At("message_delta")) = hist.fin
      /\ \A m \in At("message_delta") : Out[m].kind \in {"end_turn", "tool_use"}

\* A finished Chat-Completions response whose upstream sent two chunks with
\* finish_reason.
C3_Witness ==
    api = "chat" /\ Finished /\ hist.fin = 2

\* ---------------------------------------------------------------- C4
\* C4 (Responses termination): in a finished Responses output in which
\* message_start was sent, message_stop occurs exactly once and is the last
\* event.
C4_SingleMessageStop ==
    (api = "resp" /\ Finished /\ ts.started) =>
      /\ Cardinality(At("message_stop")) = 1
      /\ Out[Len(Out)].type = "message_stop"

\* ---------------------------------------------------------------- C5
\* C5 (missing credential): a request that came without a usable x-api-key
\* header while no key was configured is answered 401 with the error
\* envelope and nothing is sent upstream; a request that came with a header
\* value is forwarded with that value as its bearer token.
C5_MissingCredential ==
    /\ (rq.pc = "done" /\ rq.x_api_key = "none" /\ ~Truthy(rq.target_api_key)) =>
         (rq.status = 401 /\ rq.shape = "envelope" /\ ~rq.sent)
    /\ (rq.sent /\ Truthy(rq.x_api_key)) => rq.bearer = rq.x_api_key

\* ---------------------------------------------------------------- C6
\* C6 (upstream error pass-through): once the upstream has answered with a
\* status S outside 200..299, the client gets status S with the error
\* envelope and the upstream body went through no translator or transducer;
\* an upstream status inside 200..299 is never answered with the envelope.
Is2xx(status) == status \in 200..299

C6_UpstreamErrorPassThrough ==
    (rq.pc = "done" /\ rq.upstream_status # 0) =>
      IF Is2xx(rq.upstream_status)
      THEN rq.shape # "envelope"
      ELSE rq.status = rq.upstream_status /\ rq.shape = "envelope"
           /\ rq.via = "none"

\* ---------------------------------------------------------------- C7
\* C7 (flavor selection): at any time the configured flavor is Responses
\* exactly when the current base URL contains /v1/responses; and a request
\* is translated, forwarded and answered under one flavor, the flavor of the
\* URL it was forwarded to, even if the configuration changes meanwhile.
C7_FlavorSelection ==
    /\ config.API_TYPE \in {"v1_responses", "v1_chat_completions"}
    /\ config.API_TYPE = "v1_responses"
         <=> Contains(V1_RESPONSES, config.OPENAI_BASE_URL)
    /\ rq.sent =>
         /\ rq.flavor = "v1_responses" <=> Contains(V1_RESPONSES, rq.url)
         /\ rq.translator = request_translator(rq.flavor)
    /\ rq.shape = "sse" => rq.via = stream_transducer(rq.flavor)
    /\ rq.shape = "message" => rq.via = response_translator(rq.flavor)

\* A streamed request answered through the Responses transducer although
\* the configuration has since been updated to a Chat-Completions URL.
C7_Witness ==
    /\ rq.pc = "done" /\ rq.shape = "sse"
    /\ rq.via = "stream_v1_responses_to_anthropic"
    /\ Contains(V1_RESPONSES, rq.url)
    /\ config.API_TYPE = "v1_chat_completions"

\* ------------------------------------------------ translated requests
Body == tbody.body
Translation == tbody.done /\ Body.ok
OfType(items, type) == SelectSeq(items, LAMBDA m : m.type = type)
OnlyToolResults(m) ==
    /\ m.role = "user" /\ m.ckind = "list" /\ m.blocks # <<>>
    /\ \A i \in DOMAIN m.blocks : m.blocks[i].type = "tool_result"
RolesUserOrAssistant ==
    \A i \in DOMAIN areq.messages : areq.messages[i].role \in {"user", "assistant"}
\* the one message of the request, if any, that holds only tool results
DemotedAt(j) ==
    /\ j \in DOMAIN areq.messages /\ OnlyToolResults(areq.messages[j])
    /\ \A i \in DOMAIN areq.messages : i # j => areq.messages[i].ckind # "list"
UsersBeside(j) ==
    Len(WithRole(areq.messages, "user")) - 1

\* C8: a user message whose content is K >= 1 tool_result blocks and nothing
\* else becomes, in the Chat-Completions translation, exactly K messages of
\* role tool whose tool_call_id are the blocks' tool_use_id in the blocks'
\* order, and no user message; in the Responses translation, exactly K
\* custom_tool_call_output items whose call_id are the tool_use_id in the
\* same order, and no message item.
C8_ToolResultDemotion ==
    \A j \in DOMAIN areq.messages :
      (Translation /\ DemotedAt(j)) =>
        LET blocks == areq.messages[j].blocks
            ids == MapSeq(LAMBDA b : b.tool_use_id, blocks)
        IN IF xflavor = "v1_chat_completions"
           THEN /\ MapSeq(LAMBDA m : m.tool_call_id,
                          WithRole(Body.messages, "tool")) = ids
                /\ Len(WithRole(Body.messages, "user")) = UsersBeside(j)
                /\ \A i \in DOMAIN Body.messages :
                     Body.messages[i].role \in {"system", "user", "assistant", "tool"}
           ELSE /\ MapSeq(LAMBDA m : m.call_id,
                          OfType(Body.messages, "custom_tool_call_output")) = ids
                /\ Len(WithRole(OfType(Body.messages, "message"), "user"))
                     = UsersBeside(j)
                /\ \A i \in DOMAIN Body.messages :
                     Body.messages[i].type \in {"message", "custom_tool_call_output"}

C8_Witness ==
    /\ Translation /\ xflavor = "v1_responses"
    /\ \E j \in DOMAIN areq.messages :
         /\ DemotedAt(j) /\ j > 1 /\ j < Len(areq.messages)
         /\ Len(areq.messages[j].blocks) = 2
         /\ areq.messages[j].blocks[1].tool_use_id = "call_b"
         /\ areq.messages[j].blocks[2].tool_use_id = "call_a"
    /\ Len(OfType(Body.messages, "custom_tool_call_output")) = 2

\* C9: when every message of the request has role user or assistant, the
\* translated Chat-Completions body carries continue_final_message=true and
\* add_generation_prompt=false if the final message has role assistant, and
\* neither flag if the final message has role user.
C9_PrefillHint ==
    (Translation /\ xflavor = "v1_chat_completions" /\ RolesUserOrAssistant
       /\ areq.messages # <<>>) =>
      LET final == areq.messages[Len(areq.messages)].role
      IN /\ final = "assistant" =>
              /\ Body.continue_final_message = "true"
              /\ Body.add_generation_prompt = "false"
         /\ final = "user" =>
              /\ Body.continue_final_message = "absent"
              /\ Body.add_generation_prompt = "absent"

C9_Witness ==
    /\ Translation /\ xflavor = "v1_chat_completions" /\ RolesUserOrAssistant
    /\ areq.system # "absent"
    /\ Len(areq.messages) = 3
    /\ areq.messages[3].role = "assistant" /\ areq.messages[3].ckind = "list"
    /\ Body.continue_final_message = "true"

ToolUses(blocks) == SelectSeq(blocks, LAMBDA b : b.type = "tool_use")
AssistantBlocksOf(k) ==
    LET m == WithRole(areq.messages, "assistant")[k]
    IN IF m.ckind = "list" THEN m.blocks ELSE <<>>

\* C10: every tool_use{id, name, input} of an assistant message becomes,
\* in the Chat-Completions translation, a tool_calls entry with that id and
\* name and the serialised input, in the order of the blocks; and an
\* upstream reply carrying those tool_calls is translated by the unary
\* response translator to tool_use blocks with the same id, name and input,
\* in the same order.
C10_ToolUseRoundTrip ==
    (Translation /\ xflavor = "v1_chat_completions") =>
      /\ \A k \in DOMAIN WithRole(areq.messages, "assistant") :
           WithRole(Body.messages, "assistant")[k].tool_calls
             = MapSeq(LAMBDA b : [id |-> b.id, type |-> "function",
                                  name |-> b.name,
                                  arguments |-> json_dumps(b.input)],
                      ToolUses(AssistantBlocksOf(k)))
      /\ aresp.of # 0 =>
           ToolUses(aresp.content)
             = MapSeq(LAMBDA b : ToolUse(b.id, b.name, b.input),
                      ToolUses(AssistantBlocksOf(aresp.of)))

C10_Witness ==
    /\ aresp.of # 0
    /\ Len(ToolUses(aresp.content)) = 2
    /\ aresp.content[Len(aresp.content)].id = "call_a"
    /\ aresp.content[Len(aresp.content)].input
         = JObj(<<Member("x", JNum(1)), Member("y", JObj(<<Member("z", JNum(2))>>))>>)
    /\ ToolUses(AssistantBlocksOf(aresp.of))[1].id = "call_b"
    /\ ToolUses(AssistantBlocksOf(aresp.of))[1].input
         = JObj(<<Member("city", JStr("NYC"))>>)

\* C11: a request that carries a tool_choice of type auto, any or tool, with
\* or without a tools list, is translated by both translators to a body
\* with a tool_choice: "auto" for auto, "required" for any, and
\* {type: function, function: {name}} for tool.
C11_ToolChoiceMapping ==
    (Translation /\ areq.tool_choice.type \in {"auto", "any", "tool"}) =>
      Body.tool_choice =
        [kind |-> CASE areq.tool_choice.type = "auto" -> "auto"
                    [] areq.tool_choice.type = "any" -> "required"
                    [] areq.tool_choice.type = "tool" -> "function",
         name |-> areq.tool_choice.name]

WithoutBlock(req, j, i) ==
    LET b == req.messages[j].blocks
    IN [req EXCEPT !.messages[j].blocks =
          SubSeq(b, 1, i - 1) \o SubSeq(b, i + 1, Len(b))]
translator(req) ==
    IF xflavor = "v1_responses" THEN transform_request_body_v1_responses(req)
    ELSE transform_request_body(req)
ListMessage(j) ==
    /\ j \in DOMAIN areq.messages
    /\ areq.messages[j].role \in {"user", "assistant"}
    /\ areq.messages[j].ckind = "list"
SomeUntyped ==
    \E j \in DOMAIN areq.messages :
      ListMessage(j) /\ \E i \in DOMAIN areq.messages[j].blocks :
         areq.messages[j].blocks[i].type = "missing"

\* C13: in both translators a user or assistant message whose content list
\* holds a block without a type field makes the translation fail, with no
\* body; a block of a type that is not text, image, tool_use or tool_result
\* is ignored: the translation succeeds (no block being without type) and
\* its output is that of the request without the block.
C13_BlockTypeErrors ==
    tbody.done =>
      /\ SomeUntyped => ~Body.ok
      /\ \A j \in DOMAIN areq.messages :
           ListMessage(j) =>
             \A i \in DOMAIN areq.messages[j].blocks :
               areq.messages[j].blocks[i].type = "unknown" =>
                 /\ ~SomeUntyped => Body.ok
                 /\ Body = translator(WithoutBlock(areq, j, i))

C13_Witness ==
    /\ Translation
    /\ \E j \in DOMAIN areq.messages :
         /\ ListMessage(j) /\ areq.messages[j].role = "user"
         /\ Len(areq.messages[j].blocks) = 2
         /\ areq.messages[j].blocks[1].type = "unknown"
         /\ areq.messages[j].blocks[2].type = "tool_result"
         /\ Body = translator(WithoutBlock(areq, j, 1))
    /\ Len(Body.messages) = 2

\* C14: when the upstream lines of two streamed responses arrive interleaved
\* in any order, the events emitted for each request, and the state of its
\* transducer, are those the same lines produce when the transducer runs
\* alone; no state is shared between the requests.
C14_PerRequestIsolation ==
    \A r \in DOMAIN streams :
      streams[r].ts.pc # "new" =>
        LET alone == run_alone(streams[r].api, begun(streams[r].api),
                               streams[r].lines)
        IN streams[r].ts = IF streams[r].ts.pc = "done"
                           THEN closed(streams[r].api, alone) ELSE alone

C14_Witness ==
    /\ arrivals = <<1, 2, 2, 1>>
    /\ streams[1].api = "chat" /\ streams[2].api = "chat"
    /\ streams[1].ts.cbi = 2 /\ streams[2].ts.cbi = 1
    /\ streams[1].ts.pc = "done" /\ streams[2].ts.pc = "loop"
    /\ Len(streams[1].ts.out) > Len(streams[2].ts.out)

\* the blocks started and not yet stopped after the first n output events
Count(type, x, n) == Cardinality({i \in AtIndex(type, x) : i <= n})
OpenAfter(n) ==
    {x \in 0..MaxOutputIndex :
       Count("content_block_start", x, n) > Count("content_block_stop", x, n)}

\* C15: in the output of the Responses transducer a block that is open when
\* response.output_item.added arrives with another index is stopped before
\* the new block starts: at most one content block is open at any point of
\* the output, and every content_block_stop carries the index of a block
\* that is open when it is emitted.
C15_ClosingOnNewItem ==
    /\ [][(api = "resp" /\ ts.pc = "loop" /\ ts'.pc = "loop") =>
            \A l \in RespLines(ts.ev) :
              (ts' = stream_v1_responses_line(ts, l) /\ RespOpensBlock(ts, l)) =>
                \A i \in OpenAfter(Len(ts.out)) \ {ts'.cbi} :
                  \E e \in Len(ts.out) + 1 .. Len(ts'.out) - 1 :
                    /\ ts'.out[e] = BlockStop(i)
                    /\ ts'.out[Len(ts'.out)].type = "content_block_start"
                    /\ ts'.out[Len(ts'.out)].index = ts'.cbi]_vars
    /\ [](api = "resp" =>
            \A n \in DOMAIN Out :
              /\ Cardinality(OpenAfter(n)) <= 1
              /\ Out[n].type = "content_block_stop"
                    => Out[n].index \in OpenAfter(n - 1))

\* C16: in the Responses transducer a response.content_part.added event
\* produces no output event, whatever its content_index and the state of
\* the transducer; only the content-index tracking changes.
C16_ContentPartAddedIsSilent ==
    [][(api = "resp" /\ ts.pc = "loop" /\ ts'.pc = "loop"
          /\ ts.ev = "response.content_part.added" /\ ts'.ev = ts.ev) =>
         ts' = [ts EXCEPT !.cci = ts'.cci]]_vars

\* C17: in both transducers a data line whose payload is not valid JSON
\* emits no event and leaves the transducer's state as it was: the state
\* and the whole output are those of the same upstream lines without the
\* lines that are not JSON.
C17_MalformedChunkTolerance ==
    ts = hist.clean

C17_Witness ==
    /\ hist.dropped /\ Finished
    /\ Cardinality(At("content_block_delta")) >= 1
    /\ Cardinality(At("content_block_stop")) >= 1

\* the output the standard order is to give, the stop reason left aside
ExpectedText(log) ==
    MapSeq(LAMBDA c : BlockDelta(0, "text_delta", c.content),
           SelectSeq(log, LAMBDA c : ~c.hasTc /\ c.content \notin {"none", ""}))
ExpectedTool(log, k) ==
    LET chunks == SelectSeq(log, LAMBDA c : c.hasTc /\ c.tcIndex = k)
    IN <<BlockStop(k), BlockStart(k + 1, "tool_use", chunks[1].tcId)>>
       \o MapSeq(LAMBDA c : BlockDelta(k + 1, "input_json_delta", c.args),
                 SelectSeq(chunks, LAMBDA c : c.args \notin {"absent", ""}))
RECURSIVE ExpectedTools(_, _, _)
ExpectedTools(log, k, last) ==
    IF k > last THEN <<>>
    ELSE ExpectedTool(log, k) \o ExpectedTools(log, k + 1, last)
WithoutReason(events) ==
    [i \in DOMAIN events |->
       IF events[i].type = "message_delta" THEN MessageDelta("") ELSE events[i]]

\* C18: on a stream in the standard order the Chat-Completions transducer
\* emits message_start, content_block_start(0, text), one text_delta at
\* index 0 per non-empty text chunk, then for each tool index k the
\* content_block_stop of the index open before it and
\* content_block_start(k+1, tool_use) with the id of the tool's first chunk,
\* one input_json_delta at k+1 per non-empty arguments fragment, then the
\* content_block_stop of the last open index, message_delta, message_stop.
C18_StandardOrderOutput ==
    (api = "chat" /\ Finished /\ up.phase = "finished") =>
      WithoutReason(Out) =
        <<MessageStart, BlockStart(0, "text", "")>>
        \o ExpectedText(up.log)
        \o ExpectedTools(up.log, 0, up.tool)
        \o <<BlockStop(up.tool + 1), MessageDelta(""), MessageStop>>

C18_Witness ==
    /\ api = "chat" /\ Finished /\ up.phase = "finished"
    /\ up.tool = 1 /\ Len(up.log) = 4
    /\ up.log[1] = TextChunk("a")
    /\ up.log[2].tcId = "call_b" /\ up.log[2].args = "a"
    /\ up.log[3].tcId = "call_a"
    /\ Len(Out) = 11

\* C19: in an output stream of either transducer that holds an event, the
\* first event is message_start and there is exactly one message_start;
\* in the Responses transducer also when response.output_item.added or a
\* delta arrives before, or without, response.created.
C19_MessageStartFirst ==
    Out # <<>> =>
      /\ Out[1].type = "message_start"
      /\ Cardinality(At("message_start")) = 1

\* C19, amended: the first event of a non-empty output is message_start and
\* there is exactly one, in the Chat-Completions transducer always, in the
\* Responses transducer when response.created is the first upstream event
\* whose data line carries JSON.
C19_MessageStartFirstAfterCreated ==
    (api = "chat" \/ ~hist.early) => C19_MessageStartFirst

C19_Witness ==
    /\ api = "resp" /\ Finished /\ hist.created /\ ~hist.early
    /\ nlines = MaxRespLines
    /\ Out[1].type = "message_start"
    /\ Cardinality(At("content_block_start")) = 1
    /\ Out[Len(Out)].type = "message_stop"

\* a request for which the Chat-Completions translator produces no message
EmptyTranslation ==
    /\ areq.system = "absent"
    /\ \A i \in DOMAIN areq.messages :
         areq.messages[i].role \notin {"user", "assistant"}

\* C20: when the request has no system field and no message of role user
\* or assistant, the Chat-Completions translation fails and returns no
\* body, so that POST /v1/messages/count_tokens answers 500 and POST
\* /v1/messages sends nothing upstream, while the Responses translation of
\* the same request succeeds with an empty input list.
C20_EmptyTranslation ==
    EmptyTranslation =>
      /\ tbody.done =>
           IF xflavor = "v1_chat_completions" THEN ~Body.ok
           ELSE Body.ok /\ Body.messages = <<>>
      /\ answer.endpoint = "count_tokens" => answer.status = 500
      /\ (answer.endpoint = "messages" /\ xflavor = "v1_chat_completions") =>
           ~answer.sent /\ answer.status = 500
      /\ (answer.endpoint = "messages" /\ xflavor = "v1_responses") =>
           answer.sent

C20_Witness ==
    /\ EmptyTranslation /\ areq.messages # <<>>
    /\ xflavor = "v1_chat_completions"
    /\ answer = [endpoint |-> "messages", sent |-> FALSE, status |-> 500]

\* a user message whose content list holds a tool_result block
HoldsToolResult(j) ==
    /\ j \in DOMAIN areq.messages
    /\ areq.messages[j].role = "user" /\ areq.messages[j].ckind = "list"
    /\ \E i \in DOMAIN areq.messages[j].blocks :
         areq.messages[j].blocks[i].type = "tool_result"
    /\ \A i \in DOMAIN areq.messages : i # j => areq.messages[i].ckind # "list"
EmptyResult(b) ==
    \/ b.rkind = "absent"
    \/ b.rkind = "str" /\ b.rtext = <<>>
    \/ b.rkind = "list" /\ b.rparts = <<>>

\* C21: in both translators a user message whose content list holds at
\* least one tool_result block yields one output item per tool_result block,
\* in block order, and no user message or user message item; its other
\* blocks contribute nothing, and a tool_result whose content is empty or
\* absent gets the content Success.
C21_MixedToolResultMessage ==
    \A j \in DOMAIN areq.messages :
      (Translation /\ HoldsToolResult(j)) =>
        LET results == SelectSeq(areq.messages[j].blocks,
                                 LAMBDA b : b.type = "tool_result")
            items == IF xflavor = "v1_chat_completions"
                     THEN WithRole(Body.messages, "tool")
                     ELSE OfType(Body.messages, "custom_tool_call_output")
            users == IF xflavor = "v1_chat_completions"
                     THEN WithRole(Body.messages, "user")
                     ELSE WithRole(OfType(Body.messages, "message"), "user")
        IN /\ Len(items) = Len(results)
           /\ \A k \in DOMAIN results :
                /\ results[k].tool_use_id =
                     (IF xflavor = "v1_chat_completions"
                      THEN items[k].tool_call_id ELSE items[k].call_id)
                /\ EmptyResult(results[k]) =>
                     (IF xflavor = "v1_chat_completions"
                      THEN items[k].text ELSE items[k].output) = <<"Success">>
           /\ Len(users) = UsersBeside(j)
           /\ Body = translator([areq EXCEPT !.messages[j].blocks = results])

C21_Witness ==
    /\ Translation /\ xflavor = "v1_chat_completions"
    /\ \E j \in DOMAIN areq.messages :
         /\ HoldsToolResult(j) /\ j > 1
         /\ areq.messages[j].blocks[1].type = "text"
         /\ areq.messages[j].blocks[2] = ToolResultBare("call_b")
         /\ Body.messages[Len(Body.messages)].role = "tool"
         /\ Body.messages[Len(Body.messages)].text = <<"Success">>

====
